---- MODULE Spec2Model ----
(***************************************************************************)
(* A model of theano/tensor/io.py: the LoadFromDisk operation and the MPI  *)
(* send / receive / wait operations.                                       *)
(*                                                                         *)
(* Python values are records with a "kind" field; exceptions are records   *)
(* [exc, line] naming the exception class and the source line raising it.  *)
(***************************************************************************)
EXTENDS Integers, Sequences, FiniteSets, TLC

\* ------------------------------------------------------------------------
\* Bounds of the model
\* ------------------------------------------------------------------------

\* longest tensor (number of elements along axis 0) the driver hands to a send
MaxLen == 2

\* ------------------------------------------------------------------------
\* Python values
\* ------------------------------------------------------------------------

None == [kind |-> "None"]

PyTrue == [kind |-> "bool", v |-> TRUE]

\* a numpy array: canonical dtype, shape (extents), elements in row-major order
NDArray(dtype, shape, data) ==
    [kind |-> "ndarray", dtype |-> dtype, shape |-> shape, data |-> data,
     mmap |-> "None", mem |-> <<>>]

\* an array whose memory is the buffer the transport holds for request rid:
\* its elements are whatever that buffer holds when it is read
BufferArray(dtype, shape, data, rid) ==
    [NDArray(dtype, shape, data) EXCEPT !.mem = rid]

\* a transport request token
Request(rid) == [kind |-> "Request", id |-> rid]

\* a Python str
Str(chars) == [kind |-> "str", s |-> chars]

\* no exception
NoErr == [exc |-> "none", line |-> 0]

Raise(exc, line) == [exc |-> exc, line |-> line]

\* ------------------------------------------------------------------------
\* numpy.dtype(): the canonical element type of a dtype argument
\* ------------------------------------------------------------------------

CanonDTypes == {"int64", "float64"}

\* the dtype arguments the driver passes to the constructors
DTypeArgs == {"int64", "i8", "float64", "bogus"}

\* numpy.dtype(arg) succeeds
DTypeValid(arg) == arg \in {"int64", "i8", "int", "float64", "f8", "d"}

\* numpy.dtype(arg): "i8" and "int64" are one type, "f8" and "float64" another
numpy_dtype(arg) ==
    CASE arg \in {"int64", "i8", "int"} -> "int64"
      [] arg \in {"float64", "f8", "d"} -> "float64"
      [] OTHER -> "invalid"

\* ------------------------------------------------------------------------
\* Strings as sequences of characters; str.split
\* ------------------------------------------------------------------------

RECURSIVE SplitFrom(_, _, _)
\* Python s.split(sep) for a one-character sep: cur is the piece being read
SplitFrom(s, sep, cur) ==
    IF s = <<>> THEN <<cur>>
    ELSE IF Head(s) = sep
         THEN <<cur>> \o SplitFrom(Tail(s), sep, <<>>)
         ELSE SplitFrom(Tail(s), sep, Append(cur, Head(s)))

split(s, sep) == SplitFrom(s, sep, <<>>)

\* Python seq[-1]
Last(seq) == seq[Len(seq)]

\* the paths the driver passes to the loader
Paths ==
    { <<"a", ".", "n", "p", "y">>,
      <<"a", ".", "n", "p", "z">>,
      <<"n", "p", "z">>,
      <<"a">>,
      <<"a", ".", "n", "p", "z", ".", "n", "p", "y">>,
      <<"a", "n", "p", "z">> }

\* the path ends with the characters ".npz"
EndsWithNpz(path) ==
    /\ Len(path) >= 4
    /\ SubSeq(path, Len(path) - 3, Len(path)) = <<".", "n", "p", "z">>

\* ------------------------------------------------------------------------
\* The file system as numpy.load sees it
\* ------------------------------------------------------------------------

\* what may be stored at a path: nothing, a single array, or an archive
NoFile == [fkind |-> "missing"]

ArchiveFile == [fkind |-> "archive"]

ArrayFile(dtype, shape) ==
    [fkind |-> "array", dtype |-> dtype, shape |-> shape]

FileShapes == { <<>>, <<1>>, <<2>>, <<2, 1>> }

RECURSIVE Product(_)
Product(shape) == IF shape = <<>> THEN 1 ELSE Head(shape) * Product(Tail(shape))

Files ==
    {NoFile, ArchiveFile}
        \cup { ArrayFile(d, sh) : d \in CanonDTypes, sh \in FileShapes }

\* the array stored in an array file: element i holds i
FileArray(file) ==
    NDArray(file.dtype, file.shape, [i \in 1..Product(file.shape) |-> i])

\* numpy.load(path, mmap_mode) on what is stored at the path: the format is
\* read from the file's contents, not from its name
numpy_load(file, mmap_mode) ==
    CASE file.fkind = "missing" -> [err |-> "IOError", val |-> None]
      [] file.fkind = "archive" -> [err |-> "none", val |-> [kind |-> "NpzFile"]]
      [] OTHER ->
            [err |-> "none",
             val |-> [FileArray(file) EXCEPT !.mmap = mmap_mode]]

\* ------------------------------------------------------------------------
\* Storage: the engine hands a compute step its input values and, for each
\* declared output, a one-element list to write the result into
\* ------------------------------------------------------------------------

\* a fresh output cell: the Python list [None]
NewCell == <<None>>

\* Python lst[i] = v on a list (index from 0): the new list, or IndexError
SetItem(lst, i, v) ==
    IF i >= 0 /\ i < Len(lst)
    THEN [err |-> "none", val |-> [lst EXCEPT ![i + 1] = v]]
    ELSE [err |-> "IndexError", val |-> lst]

\* Python v[i] on a value (index from 0): the item, or the exception.
\* An array gives its i-th sub-array along axis 0; a 0-d array cannot be
\* indexed; a list gives its i-th item; None, a bool and a transport request
\* are not subscriptable
GetItem(v, i) ==
    CASE v.kind = "ndarray" ->
            IF v.shape # <<>> /\ i >= 0 /\ i < Head(v.shape)
            THEN LET n == Product(Tail(v.shape))
                 IN  [err |-> "none",
                      val |-> NDArray(v.dtype, Tail(v.shape),
                                      SubSeq(v.data, i * n + 1, (i + 1) * n))]
            ELSE [err |-> "IndexError", val |-> None]
      [] v.kind = "list" ->
            IF i >= 0 /\ i < Len(v.items)
            THEN [err |-> "none", val |-> v.items[i + 1]]
            ELSE [err |-> "IndexError", val |-> None]
      [] OTHER -> [err |-> "TypeError", val |-> None]

\* ------------------------------------------------------------------------
\* LoadFromDisk
\* ------------------------------------------------------------------------

\* the mmap_mode arguments the driver passes; "None" stands for Python's None
MmapModes == {"None", "c", "r", "r+", "w+"}

\* the broadcastable patterns the driver passes
BPatterns == { <<>>, <<FALSE>>, <<FALSE, TRUE>> }

\* LoadFromDisk.__init__ without the check of lines 22-24
LoadFromDisk_init_NoModeCheck(dtype, broadcastable, mmap_mode) ==
    IF ~DTypeValid(dtype)
    THEN [err |-> Raise("TypeError", 20), obj |-> None]
    ELSE [err |-> NoErr,
          obj |-> [kind |-> "LoadFromDisk",
                   dtype |-> numpy_dtype(dtype),
                   broadcastable |-> broadcastable,
                   mmap_mode |-> mmap_mode,
                   _info |-> <<dtype, broadcastable, mmap_mode>>]]

\* LoadFromDisk.__init__: the object, or the exception that ends construction
LoadFromDisk_init(dtype, broadcastable, mmap_mode) ==
    IF ~DTypeValid(dtype)
    THEN [err |-> Raise("TypeError", 20), obj |-> None]
    ELSE IF mmap_mode \notin {"None", "c"}
    THEN [err |-> Raise("ValueError", 23), obj |-> None]
    ELSE [err |-> NoErr,
          obj |-> [kind |-> "LoadFromDisk",
                   dtype |-> numpy_dtype(dtype),
                   broadcastable |-> broadcastable,
                   mmap_mode |-> mmap_mode,
                   _info |-> <<dtype, broadcastable, mmap_mode>>]]

\* the check of line 42: the text after the last "." is "npz"
IsNpzPath(path) == Last(split(path, ".")) = <<"n", "p", "z">>

\* LoadFromDisk.perform without the check of lines 45-47
LoadFromDisk_perform_NoTypeCheck(self, inp, out, file) ==
    LET path == inp[1].s
        loaded == numpy_load(file, self.mmap_mode)
        result == loaded.val
    IN  IF Last(split(path, ".")) = <<"n", "p", "z">>
        THEN [err |-> Raise("ValueError", 43), out |-> out, read |-> FALSE]
        ELSE IF loaded.err # "none"
        THEN [err |-> Raise(loaded.err, 44), out |-> out, read |-> TRUE]
        ELSE [err |-> NoErr,
              out |-> [out EXCEPT ![1] = SetItem(out[1], 0, result).val],
              read |-> TRUE]

\* LoadFromDisk.perform with the check of lines 42-43 made after line 44
LoadFromDisk_perform_LoadFirst(self, inp, out, file) ==
    LET path == inp[1].s
        loaded == numpy_load(file, self.mmap_mode)
        result == loaded.val
    IN  IF loaded.err # "none"
        THEN [err |-> Raise(loaded.err, 44), out |-> out, read |-> TRUE]
        ELSE IF Last(split(path, ".")) = <<"n", "p", "z">>
        THEN [err |-> Raise("ValueError", 43), out |-> out, read |-> TRUE]
        ELSE IF result.kind # "ndarray"
        THEN [err |-> Raise("AttributeError", 45), out |-> out, read |-> TRUE]
        ELSE IF result.dtype # self.dtype
        THEN [err |-> Raise("TypeError", 46), out |-> out, read |-> TRUE]
        ELSE [err |-> NoErr,
              out |-> [out EXCEPT ![1] = SetItem(out[1], 0, result).val],
              read |-> TRUE]

\* LoadFromDisk.perform with the loaded array converted to the configured
\* element type instead of compared with it (lines 45-48)
LoadFromDisk_perform_Converts(self, inp, out, file) ==
    LET path == inp[1].s
        loaded == numpy_load(file, self.mmap_mode)
        result == loaded.val
    IN  IF Last(split(path, ".")) = <<"n", "p", "z">>
        THEN [err |-> Raise("ValueError", 43), out |-> out, read |-> FALSE]
        ELSE IF loaded.err # "none"
        THEN [err |-> Raise(loaded.err, 44), out |-> out, read |-> TRUE]
        ELSE IF result.kind # "ndarray"
        THEN [err |-> Raise("AttributeError", 45), out |-> out, read |-> TRUE]
        ELSE [err |-> NoErr,
              out |-> [out EXCEPT ![1] =
                          SetItem(out[1], 0,
                                  [result EXCEPT !.dtype = self.dtype,
                                                 !.mmap = "None"]).val],
              read |-> TRUE]

\* LoadFromDisk.perform(node, inp, out) with `file` stored at the path:
\* the exception raised, the output storage afterwards, whether the file was read
LoadFromDisk_perform(self, inp, out, file) ==
    LET path == inp[1].s
        loaded == numpy_load(file, self.mmap_mode)
        result == loaded.val
    IN  IF IsNpzPath(path)
        THEN [err |-> Raise("ValueError", 43), out |-> out, read |-> FALSE]
        ELSE IF loaded.err # "none"
        THEN [err |-> Raise(loaded.err, 44), out |-> out, read |-> TRUE]
        ELSE IF result.kind # "ndarray"
        THEN [err |-> Raise("AttributeError", 45), out |-> out, read |-> TRUE]
        ELSE IF result.dtype # self.dtype
        THEN [err |-> Raise("TypeError", 46), out |-> out, read |-> TRUE]
        ELSE [err |-> NoErr,
              out |-> [out EXCEPT ![1] = SetItem(out[1], 0, result).val],
              read |-> TRUE]

\* ------------------------------------------------------------------------
\* MPI operations
\* ------------------------------------------------------------------------

\* the names bound in the module's namespace after import: lines 1-4 bind
\* numpy, gof, Constant, Generic, Op and tensor (never `theano`); lines 85-90
\* bind MPI and comm only when mpi4py imports
ModuleGlobals(enabled) ==
    {"numpy", "gof", "Constant", "Generic", "Op", "tensor", "mpi_enabled"}
        \cup (IF enabled THEN {"MPI", "comm"} ELSE {})

\* nothing handed to the transport
NoPost == [kind |-> "none"]

\* no request waited on
NoRid == <<>>

\* MPIRecv.__init__
MPIRecv_init(rank, tag, dtype, shape) ==
    IF ~DTypeValid(dtype)
    THEN [err |-> Raise("TypeError", 108), obj |-> None]
    ELSE [err |-> NoErr,
          obj |-> [kind |-> "MPIRecv",
                   rank |-> rank,
                   tag |-> tag,
                   shape |-> shape,
                   dtype |-> numpy_dtype(dtype),
                   broadcastable |-> [i \in 1..Len(shape) |-> FALSE],
                   _info |-> <<rank, tag, dtype, shape>>]]

\* MPISend.__init__
MPISend_init(rank, tag) ==
    [err |-> NoErr,
     obj |-> [kind |-> "MPISend", rank |-> rank, tag |-> tag,
              _info |-> <<rank, tag>>]]

\* MPIRecvWait.__init__
MPIRecvWait_init == [err |-> NoErr, obj |-> [kind |-> "MPIRecvWait"]]

\* MPISendWait.__init__
MPISendWait_init == [err |-> NoErr, obj |-> [kind |-> "MPISendWait"]]

\* MPIRecv.perform with lines 127 and 128 in the other order: the buffer is
\* written first, so the exception of that write comes before the request
\* is stored
MPIRecv_perform_DataFirst(self, inp, out, enabled, rid, garbage) ==
    LET data == BufferArray(self.dtype, self.shape, garbage, rid)
        posted == [kind |-> "recv", rank |-> self.rank, tag |-> self.tag,
                   buf |-> data]
        w2 == SetItem(out[1], 1, data)
        out1 == [out EXCEPT ![1] = w2.val]
        w1 == SetItem(out1[1], 0, Request(rid))
        out2 == [out1 EXCEPT ![1] = w1.val]
    IN  IF "comm" \notin ModuleGlobals(enabled)
        THEN [err |-> Raise("NameError", 125), out |-> out, post |-> NoPost]
        ELSE IF w2.err # "none"
        THEN [err |-> Raise(w2.err, 128), out |-> out, post |-> posted]
        ELSE IF w1.err # "none"
        THEN [err |-> Raise(w1.err, 127), out |-> out1, post |-> posted]
        ELSE [err |-> NoErr, out |-> out2, post |-> posted]

\* MPIRecv.perform(node, inp, out). enabled: mpi4py imported at module start;
\* rid: the token the transport returns; garbage: what numpy.empty's
\* uninitialised memory happens to hold.
\* Gives the exception, the output storage afterwards and the posted receive
MPIRecv_perform(self, inp, out, enabled, rid, garbage) ==
    LET data == BufferArray(self.dtype, self.shape, garbage, rid)
        posted == [kind |-> "recv", rank |-> self.rank, tag |-> self.tag,
                   buf |-> data]
        w1 == SetItem(out[1], 0, Request(rid))
        out1 == [out EXCEPT ![1] = w1.val]
        w2 == SetItem(out1[1], 1, data)
        out2 == [out1 EXCEPT ![1] = w2.val]
    IN  IF "comm" \notin ModuleGlobals(enabled)
        THEN [err |-> Raise("NameError", 125), out |-> out, post |-> NoPost]
        ELSE IF w1.err # "none"
        THEN [err |-> Raise(w1.err, 127), out |-> out, post |-> posted]
        ELSE IF w2.err # "none"
        THEN [err |-> Raise(w2.err, 128), out |-> out1, post |-> posted]
        ELSE [err |-> NoErr, out |-> out2, post |-> posted]

\* MPISend.perform(node, inp, out)
MPISend_perform(self, inp, out, enabled, rid) ==
    LET g == GetItem(inp[1], 0)
        data == g.val
        posted == [kind |-> "send", rank |-> self.rank, tag |-> self.tag,
                   buf |-> data]
        w == SetItem(out[1], 0, Request(rid))
    IN  IF g.err # "none"
        THEN [err |-> Raise(g.err, 198), out |-> out, post |-> NoPost]
        ELSE IF "comm" \notin ModuleGlobals(enabled)
        THEN [err |-> Raise("NameError", 200), out |-> out, post |-> NoPost]
        ELSE IF w.err # "none"
        THEN [err |-> Raise(w.err, 202), out |-> out, post |-> posted]
        ELSE [err |-> NoErr, out |-> [out EXCEPT ![1] = w.val],
              post |-> posted]

\* request.wait() on a value: the request waited on, or AttributeError when
\* the value is no request
WaitTarget(request) ==
    IF request.kind = "Request"
    THEN [err |-> "none", rid |-> request.id]
    ELSE [err |-> "AttributeError", rid |-> NoRid]

\* the elements an array holds now: an array over a transport buffer holds
\* what the transport has put there
Deref(v, reqs) ==
    IF v.kind = "ndarray" /\ v.mem # <<>>
    THEN [v EXCEPT !.data = reqs[v.mem].buf.data]
    ELSE v

\* MPIRecvWait.perform(node, inp, out). reqs: the transport's requests.
\* Gives the exception, the output storage afterwards, the request whose
\* wait() was called (NoRid when none was) and whether that call is still
\* blocked
MPIRecvWait_perform(self, inp, out, reqs) ==
    LET g1 == GetItem(inp[1], 0)
        g2 == GetItem(inp[1], 1)
        t == WaitTarget(g1.val)
        st == reqs[t.rid].status
        w == SetItem(out[1], 0, Deref(g2.val, reqs))
    IN  IF g1.err # "none"
        THEN [err |-> Raise(g1.err, 160), out |-> out, waited |-> NoRid,
              blocked |-> FALSE]
        ELSE IF g2.err # "none"
        THEN [err |-> Raise(g2.err, 161), out |-> out, waited |-> NoRid,
              blocked |-> FALSE]
        ELSE IF t.err # "none"
        THEN [err |-> Raise(t.err, 163), out |-> out, waited |-> NoRid,
              blocked |-> FALSE]
        ELSE IF st = "pending"
        THEN [err |-> NoErr, out |-> out, waited |-> t.rid, blocked |-> TRUE]
        ELSE IF st = "failed"
        THEN [err |-> Raise("MPIError", 163), out |-> out, waited |-> t.rid,
              blocked |-> FALSE]
        ELSE IF w.err # "none"
        THEN [err |-> Raise(w.err, 165), out |-> out, waited |-> t.rid,
              blocked |-> FALSE]
        ELSE [err |-> NoErr, out |-> [out EXCEPT ![1] = w.val],
              waited |-> t.rid, blocked |-> FALSE]

\* MPISendWait.perform(node, inp, out)
MPISendWait_perform(self, inp, out, reqs) ==
    LET g == GetItem(inp[1], 0)
        t == WaitTarget(g.val)
        st == reqs[t.rid].status
        w == SetItem(out[1], 0, PyTrue)
    IN  IF g.err # "none"
        THEN [err |-> Raise(g.err, 230), out |-> out, waited |-> NoRid,
              blocked |-> FALSE]
        ELSE IF t.err # "none"
        THEN [err |-> Raise(t.err, 231), out |-> out, waited |-> NoRid,
              blocked |-> FALSE]
        ELSE IF st = "pending"
        THEN [err |-> NoErr, out |-> out, waited |-> t.rid, blocked |-> TRUE]
        ELSE IF st = "failed"
        THEN [err |-> Raise("MPIError", 231), out |-> out, waited |-> t.rid,
              blocked |-> FALSE]
        ELSE IF w.err # "none"
        THEN [err |-> Raise(w.err, 232), out |-> out, waited |-> t.rid,
              blocked |-> FALSE]
        ELSE [err |-> NoErr, out |-> [out EXCEPT ![1] = w.val],
              waited |-> t.rid, blocked |-> FALSE]

\* ------------------------------------------------------------------------
\* make_node
\* ------------------------------------------------------------------------

\* a symbolic variable of the graph
Variable(type) == [kind |-> "Variable", type |-> type]

\* tensor(dtype, broadcastable=...): a tensor variable
tensor(dtype, broadcastable) ==
    [kind |-> "Variable", type |-> "tensor", dtype |-> dtype,
     broadcastable |-> broadcastable]

\* gof.Apply(op, inputs, outputs)
Apply(op, inputs, outputs) ==
    [kind |-> "Apply", op |-> op, inputs |-> inputs, outputs |-> outputs]

\* LoadFromDisk.make_node(self, path), called with the arguments args
LoadFromDisk_make_node(self, args, enabled) ==
    IF Len(args) # 1
    THEN [err |-> Raise("TypeError", 34), node |-> None]
    ELSE LET path == IF args[1].kind = "str"
                     THEN [kind |-> "Constant", type |-> "Generic",
                           data |-> args[1]]
                     ELSE args[1]
         IN  [err |-> NoErr,
              node |-> Apply(self, <<path>>,
                             <<tensor(self.dtype, self.broadcastable)>>)]

\* MPIRecv.make_node(self): line 119 reads the global `theano`
MPIRecv_make_node(self, args, enabled) ==
    IF Len(args) # 0
    THEN [err |-> Raise("TypeError", 118), node |-> None]
    ELSE IF "theano" \notin ModuleGlobals(enabled)
    THEN [err |-> Raise("NameError", 119), node |-> None]
    ELSE [err |-> NoErr,
          node |-> Apply(self, <<>>,
                         <<Variable("Generic"),
                           tensor(self.dtype, self.broadcastable)>>)]

\* MPIRecvWait.make_node(self): line 153 reads the global `theano`, line 154
\* the attribute self.dtype, which __init__ never sets
MPIRecvWait_make_node(self, args, enabled) ==
    IF Len(args) # 0
    THEN [err |-> Raise("TypeError", 152), node |-> None]
    ELSE IF "theano" \notin ModuleGlobals(enabled)
    THEN [err |-> Raise("NameError", 153), node |-> None]
    ELSE IF "dtype" \notin DOMAIN self
    THEN [err |-> Raise("AttributeError", 154), node |-> None]
    ELSE [err |-> NoErr,
          node |-> Apply(self,
                         <<Variable("Generic"),
                           tensor(self.dtype, self.broadcastable)>>,
                         <<tensor(self.dtype, self.broadcastable)>>)]

\* MPISend.make_node(self): line 193 reads the attribute self.dtype, which
\* __init__ never sets, before line 194 reads the global `theano`
MPISend_make_node(self, args, enabled) ==
    IF Len(args) # 0
    THEN [err |-> Raise("TypeError", 192), node |-> None]
    ELSE IF "dtype" \notin DOMAIN self
    THEN [err |-> Raise("AttributeError", 193), node |-> None]
    ELSE IF "theano" \notin ModuleGlobals(enabled)
    THEN [err |-> Raise("NameError", 194), node |-> None]
    ELSE [err |-> NoErr,
          node |-> Apply(self, <<tensor(self.dtype, self.broadcastable)>>,
                         <<Variable("Generic")>>)]

\* MPISendWait.make_node(self): line 227 reads the global `theano`
MPISendWait_make_node(self, args, enabled) ==
    IF Len(args) # 0
    THEN [err |-> Raise("TypeError", 226), node |-> None]
    ELSE IF "theano" \notin ModuleGlobals(enabled)
    THEN [err |-> Raise("NameError", 227), node |-> None]
    ELSE [err |-> NoErr,
          node |-> Apply(self, <<Variable("Generic")>>,
                         <<Variable("Generic")>>)]

\* op.make_node(*args), dispatched on the op's class
make_node(op, args, enabled) ==
    CASE op.kind = "LoadFromDisk" -> LoadFromDisk_make_node(op, args, enabled)
      [] op.kind = "MPIRecv" -> MPIRecv_make_node(op, args, enabled)
      [] op.kind = "MPIRecvWait" -> MPIRecvWait_make_node(op, args, enabled)
      [] op.kind = "MPISend" -> MPISend_make_node(op, args, enabled)
      [] op.kind = "MPISendWait" -> MPISendWait_make_node(op, args, enabled)

\* the number of outputs a node of the op declares (the output list its
\* make_node hands to gof.Apply): one storage cell each
NumOutputs(op) ==
    IF op.kind = "MPIRecv" THEN 2 ELSE 1

\* ------------------------------------------------------------------------
\* __eq__ and __hash__
\* ------------------------------------------------------------------------

\* hash(v) of a tuple of strings, integers, booleans and such tuples: a
\* value determined by v alone. Which integer it is depends on the
\* interpreter's string-hash seed; it is kept as "the hash of v", so values
\* that differ are given hashes that differ
PyHash(v) == [hash_of |-> v]

\* hash(self.<name>): AttributeError when the object has no such attribute
HashAttr(self, name, line) ==
    IF name \in DOMAIN self
    THEN [err |-> NoErr, val |-> PyHash(self[name])]
    ELSE [err |-> Raise("AttributeError", line), val |-> None]

\* LoadFromDisk.__eq__
LoadFromDisk_eq(self, other) ==
    self.kind = other.kind /\ self._info = other._info

\* LoadFromDisk.__hash__
LoadFromDisk_hash(self) == HashAttr(self, "_info", 32)

\* MPIRecv.__eq__
MPIRecv_eq(self, other) ==
    self.kind = other.kind /\ self._info = other._info

\* MPIRecv.__hash__
MPIRecv_hash(self) == HashAttr(self, "_info", 116)

\* MPIRecvWait.__eq__ comparing with isinstance(other, MPIRecvWait.__base__)
\* instead of the exact type
MPIRecvWait_eq_AnyOp(self, other) == other.kind # "None"

\* MPIRecvWait.__eq__
MPIRecvWait_eq(self, other) == self.kind = other.kind

\* MPIRecvWait.__hash__
MPIRecvWait_hash(self) == HashAttr(self, "type", 150)

\* MPISend.__eq__
MPISend_eq(self, other) ==
    self.kind = other.kind /\ self._info = other._info

\* MPISend.__hash__
MPISend_hash(self) == HashAttr(self, "_info", 190)

\* MPISendWait.__eq__
MPISendWait_eq(self, other) == self.kind = other.kind

\* MPISendWait.__hash__
MPISendWait_hash(self) == HashAttr(self, "type", 224)

\* a == b: the __eq__ of a's class
PyEq(a, b) ==
    CASE a.kind = "LoadFromDisk" -> LoadFromDisk_eq(a, b)
      [] a.kind = "MPIRecv" -> MPIRecv_eq(a, b)
      [] a.kind = "MPIRecvWait" -> MPIRecvWait_eq(a, b)
      [] a.kind = "MPISend" -> MPISend_eq(a, b)
      [] a.kind = "MPISendWait" -> MPISendWait_eq(a, b)

\* hash(a): the __hash__ of a's class
PyHashOp(a) ==
    CASE a.kind = "LoadFromDisk" -> LoadFromDisk_hash(a)
      [] a.kind = "MPIRecv" -> MPIRecv_hash(a)
      [] a.kind = "MPIRecvWait" -> MPIRecvWait_hash(a)
      [] a.kind = "MPISend" -> MPISend_hash(a)
      [] a.kind = "MPISendWait" -> MPISendWait_hash(a)

\* ------------------------------------------------------------------------
\* State
\* ------------------------------------------------------------------------

\* the slots of a process: each holds one transfer (a Start and its Wait)
Slots == {1, 2}

\* the ranks of the processes
Procs == {0, 1}

\* the tags the driver uses
Tags == {7, 8}

\* a transfer slot <<rank of its process, index>>; the request its Start
\* posts is named after it
SlotIds == Procs \X Slots

\* the slots the free-running driver constructs transfers in: the first of
\* each process
DriverSlots == Procs \X {1}

\* element values of the tensors the driver sends
Elems == {1, 2}

\* what uninitialised memory may hold
Garbage == {0, 1}

RECURSIVE SeqsOfLen(_, _)
SeqsOfLen(S, n) ==
    IF n = 0 THEN { <<>> }
    ELSE { Append(q, x) : q \in SeqsOfLen(S, n - 1), x \in S }

\* the tensors the driver hands to a send: int64 vectors of up to MaxLen
Tensors ==
    UNION { { NDArray("int64", <<n>>, d) : d \in SeqsOfLen(Elems, n) }
            : n \in 0..MaxLen }

\* the shape arguments the driver passes to MPIRecv
RecvShapes == { <<n>> : n \in 0..MaxLen }

\* the dtype arguments the driver passes to MPIRecv
RecvDTypeArgs == {"int64"}

VARIABLES
    loader,      \* the LoadFromDisk object of the last constructor call, or None
    ldInit,      \* the last constructor call: its arguments and its exception
    ldOut,       \* the loader node's output storage: a list of cells
    ldCall,      \* the last perform call: path, file, exception, storage before
    mk,          \* the last make_node call: op, arguments, exception, node
    cmp,         \* the last comparison: the two ops, a == b, their hashes
    mpi_enabled, \* line 88 / line 90
    op,          \* per slot: the Start op constructed there, or None
    startIn,     \* per slot: the input values the Start's compute step got
    startOut,    \* per slot: the Start node's output storage
    startErr,    \* per slot: the exception of the Start's compute step
    waitOut,     \* per slot: the Wait node's output storage
    waitErr,     \* per slot: the exception of the Wait's compute step
    requests     \* the transport: per slot, the request its Start posted

ldvars == <<loader, ldInit, ldOut, ldCall>>

mpivars ==
    <<op, startIn, startOut, startErr, waitOut, waitErr, requests>>

vars ==
    <<loader, ldInit, ldOut, ldCall, mk, cmp, mpi_enabled, op, startIn,
      startOut, startErr, waitOut, waitErr, requests>>

NoCall == [called |-> FALSE]

\* a compute step that has not run
NotRun == [exc |-> "notrun", line |-> 0]

Unissued == [status |-> "unissued"]

Init ==
    /\ loader = None
    /\ ldInit = NoCall
    /\ ldOut = <<NewCell>>
    /\ ldCall = NoCall
    /\ mk = NoCall
    /\ cmp = NoCall
    /\ mpi_enabled \in BOOLEAN
    /\ op = [i \in SlotIds |-> None]
    /\ startIn = [i \in SlotIds |-> <<>>]
    /\ startOut = [i \in SlotIds |-> <<>>]
    /\ startErr = [i \in SlotIds |-> NotRun]
    /\ waitOut = [i \in SlotIds |-> <<>>]
    /\ waitErr = [i \in SlotIds |-> NotRun]
    /\ requests = [i \in SlotIds |-> Unissued]

\* ------------------------------------------------------------------------
\* The loader's driver
\* ------------------------------------------------------------------------

\* the driver constructs a loader; a new op gets fresh storage
LdConstruct(dtype, broadcastable, mmap_mode) ==
    LET r == LoadFromDisk_init(dtype, broadcastable, mmap_mode)
    IN  /\ ldInit' = [called |-> TRUE, dtype |-> dtype,
                      broadcastable |-> broadcastable,
                      mmap_mode |-> mmap_mode, err |-> r.err]
        /\ loader' = r.obj
        /\ ldOut' = <<NewCell>>
        /\ ldCall' = NoCall
        /\ UNCHANGED <<mk, cmp, mpi_enabled, mpivars>>

\* the engine runs the loader's compute step on a path
LdPerform(path, file) ==
    /\ loader # None
    /\ LET r == LoadFromDisk_perform(loader, <<Str(path)>>, ldOut, file)
       IN  /\ ldOut' = r.out
           /\ ldCall' = [called |-> TRUE, path |-> path, file |-> file,
                         err |-> r.err, read |-> r.read, before |-> ldOut]
    /\ UNCHANGED <<loader, ldInit, mk, cmp, mpi_enabled, mpivars>>

LoaderNext ==
    \/ \E d \in DTypeArgs, b \in BPatterns, m \in MmapModes :
            LdConstruct(d, b, m)
    \/ \E path \in Paths, file \in Files : LdPerform(path, file)

LoaderSpec == Init /\ [][LoaderNext]_vars

\* ------------------------------------------------------------------------
\* The transfer operations' driver and the transport
\* ------------------------------------------------------------------------

\* fresh output storage for a node of the op
NewStorage(o) == [k \in 1..NumOutputs(o) |-> NewCell]

\* the transport's record of a request just posted by slot i
Posted(i, post) ==
    [kind |-> post.kind, owner |-> i[1], rank |-> post.rank,
     tag |-> post.tag, buf |-> post.buf, status |-> "pending",
     delivered |-> FALSE, waits |-> 0]

\* the driver constructs a send op in a free slot
SendConstruct(i, rank, tag) ==
    LET r == MPISend_init(rank, tag)
    IN  /\ op[i] = None
        /\ op' = [op EXCEPT ![i] = r.obj]
        /\ startOut' = [startOut EXCEPT ![i] = NewStorage(r.obj)]
        /\ waitOut' = [waitOut EXCEPT ![i] = NewStorage(MPISendWait_init.obj)]
        /\ UNCHANGED <<ldvars, mk, cmp, mpi_enabled, startIn, startErr, waitErr,
                       requests>>

\* the driver constructs a receive op in a free slot
RecvConstruct(i, rank, tag, dtype, shape) ==
    LET r == MPIRecv_init(rank, tag, dtype, shape)
    IN  /\ op[i] = None
        /\ r.err = NoErr
        /\ op' = [op EXCEPT ![i] = r.obj]
        /\ startOut' = [startOut EXCEPT ![i] = NewStorage(r.obj)]
        /\ waitOut' = [waitOut EXCEPT ![i] = NewStorage(MPIRecvWait_init.obj)]
        /\ UNCHANGED <<ldvars, mk, cmp, mpi_enabled, startIn, startErr, waitErr,
                       requests>>

\* the engine runs the compute step of the send in slot i on the tensor t
SendStart(i, t) ==
    /\ op[i].kind = "MPISend"
    /\ startErr[i] = NotRun
    /\ LET r == MPISend_perform(op[i], <<t>>, startOut[i], mpi_enabled, i)
       IN  /\ startIn' = [startIn EXCEPT ![i] = <<t>>]
           /\ startOut' = [startOut EXCEPT ![i] = r.out]
           /\ startErr' = [startErr EXCEPT ![i] = r.err]
           /\ requests' = IF r.post = NoPost THEN requests
                          ELSE [requests EXCEPT ![i] = Posted(i, r.post)]
    /\ UNCHANGED <<ldvars, mk, cmp, mpi_enabled, op, waitOut, waitErr>>

\* the engine runs the compute step of the receive in slot i; the buffer
\* numpy.empty allocates holds arbitrary elements
RecvStart(i) ==
    /\ op[i].kind = "MPIRecv"
    /\ startErr[i] = NotRun
    /\ \E garbage \in SeqsOfLen(Garbage, Product(op[i].shape)) :
         LET r == MPIRecv_perform(op[i], <<>>, startOut[i], mpi_enabled, i,
                                  garbage)
         IN  /\ startOut' = [startOut EXCEPT ![i] = r.out]
             /\ startErr' = [startErr EXCEPT ![i] = r.err]
             /\ requests' = IF r.post = NoPost THEN requests
                            ELSE [requests EXCEPT ![i] = Posted(i, r.post)]
    /\ UNCHANGED <<ldvars, mk, cmp, mpi_enabled, op, startIn, waitOut, waitErr>>

\* the requests after request.wait() was called on rid (NoRid: not called)
Waited(reqs, rid) ==
    IF rid = NoRid THEN reqs
    ELSE [reqs EXCEPT ![rid].waits = @ + 1]

\* the engine runs the compute step of the send-wait of slot i, after the
\* Start of the slot: its input is the value in the Start's output cell.
\* A step blocked in request.wait() has not returned
SendWait(i) ==
    /\ op[i].kind = "MPISend"
    /\ startErr[i] # NotRun
    /\ waitErr[i] = NotRun
    /\ LET r == MPISendWait_perform(MPISendWait_init.obj,
                                    <<startOut[i][1][1]>>, waitOut[i],
                                    requests)
       IN  /\ ~r.blocked
           /\ waitOut' = [waitOut EXCEPT ![i] = r.out]
           /\ waitErr' = [waitErr EXCEPT ![i] = r.err]
           /\ requests' = Waited(requests, r.waited)
    /\ UNCHANGED <<ldvars, mk, cmp, mpi_enabled, op, startIn, startOut, startErr>>

\* the engine runs the compute step of the receive-wait of slot i: its
\* inputs are the values in the Start's two output cells
RecvWait(i) ==
    /\ op[i].kind = "MPIRecv"
    /\ startErr[i] # NotRun
    /\ waitErr[i] = NotRun
    /\ LET r == MPIRecvWait_perform(MPIRecvWait_init.obj,
                                    <<startOut[i][1][1], startOut[i][2][1]>>,
                                    waitOut[i], requests)
       IN  /\ ~r.blocked
           /\ waitOut' = [waitOut EXCEPT ![i] = r.out]
           /\ waitErr' = [waitErr EXCEPT ![i] = r.err]
           /\ requests' = Waited(requests, r.waited)
    /\ UNCHANGED <<ldvars, mk, cmp, mpi_enabled, op, startIn, startOut, startErr>>

\* the send request i and the receive request j are on one channel: each
\* names the other's process, and the tags agree
Matches(reqs, i, j) ==
    /\ reqs[i].status \in {"pending", "complete"}
    /\ reqs[i].kind = "send"
    /\ ~reqs[i].delivered
    /\ reqs[j].status = "pending"
    /\ reqs[j].kind = "recv"
    /\ reqs[i].rank = reqs[j].owner
    /\ reqs[j].rank = reqs[i].owner
    /\ reqs[i].tag = reqs[j].tag

\* the message is no longer than the buffer
Fits(msg, buf) == Len(msg.data) <= Len(buf.data)

\* the receive buffer after a message is copied into its first elements
Filled(buf, msg) ==
    [buf EXCEPT !.data = msg.data \o SubSeq(buf.data, Len(msg.data) + 1,
                                            Len(buf.data))]

\* the transport delivers the message of send i into the buffer of the
\* matching receive j: both complete, unless the message is longer than the
\* buffer, which fails the receive
TransportMatch(i, j) ==
    /\ Matches(requests, i, j)
    /\ requests' =
          [requests EXCEPT
             ![i].status = "complete",
             ![i].delivered = TRUE,
             ![j].status = IF Fits(requests[i].buf, requests[j].buf)
                           THEN "complete" ELSE "failed",
             ![j].buf = IF Fits(requests[i].buf, @)
                        THEN Filled(@, requests[i].buf) ELSE @]
    /\ UNCHANGED <<ldvars, mk, cmp, mpi_enabled, op, startIn, startOut, startErr,
                   waitOut, waitErr>>

\* the transport buffers the message of a pending send and completes the
\* send before any receive matches it
TransportEager(i) ==
    /\ requests[i].status = "pending"
    /\ requests[i].kind = "send"
    /\ requests' = [requests EXCEPT ![i].status = "complete"]
    /\ UNCHANGED <<ldvars, mk, cmp, mpi_enabled, op, startIn, startOut, startErr,
                   waitOut, waitErr>>

\* the transport fails or aborts a pending request
TransportFail(i) ==
    /\ requests[i].status = "pending"
    /\ requests' = [requests EXCEPT ![i].status = "failed"]
    /\ UNCHANGED <<ldvars, mk, cmp, mpi_enabled, op, startIn, startOut, startErr,
                   waitOut, waitErr>>

Next ==
    \/ \E i \in DriverSlots, rank \in Procs, tag \in Tags :
            SendConstruct(i, rank, tag)
    \/ \E i \in DriverSlots, rank \in Procs, tag \in Tags,
          dtype \in RecvDTypeArgs, shape \in RecvShapes :
            RecvConstruct(i, rank, tag, dtype, shape)
    \/ \E i \in DriverSlots, t \in Tensors : SendStart(i, t)
    \/ \E i \in DriverSlots : RecvStart(i)
    \/ \E i \in DriverSlots : SendWait(i)
    \/ \E i \in DriverSlots : RecvWait(i)
    \/ \E i \in DriverSlots, j \in DriverSlots : TransportMatch(i, j)
    \/ \E i \in DriverSlots : TransportEager(i)
    \/ \E i \in DriverSlots : TransportFail(i)

Spec == Init /\ [][Next]_vars

\* ------------------------------------------------------------------------
\* The graph builder's driver: op.make_node(*inputs)
\* ------------------------------------------------------------------------

\* the ops the driver can construct
AllOps ==
    { r.obj : r \in { x \in { LoadFromDisk_init(d, b, m) :
                                  d \in DTypeArgs, b \in BPatterns,
                                  m \in MmapModes } : x.err = NoErr } }
      \cup { MPISend_init(rank, tag).obj : rank \in Procs, tag \in Tags }
      \cup { r.obj : r \in { x \in { MPIRecv_init(rank, tag, d, sh) :
                                     rank \in Procs, tag \in Tags,
                                     d \in DTypeArgs, sh \in RecvShapes } :
                                x.err = NoErr } }
      \cup { MPIRecvWait_init.obj, MPISendWait_init.obj }

\* the symbolic inputs the driver can offer: a handle-typed variable, a
\* tensor variable, a path
NodeArgs ==
    { <<>>,
      <<Variable("Generic")>>,
      <<Variable("Generic"), tensor("int64", <<FALSE>>)>>,
      <<tensor("int64", <<FALSE>>)>>,
      <<Str(<<"a", ".", "n", "p", "y">>)>> }

\* the graph builder calls o.make_node(*args)
MakeNode(o, args) ==
    LET r == make_node(o, args, mpi_enabled)
    IN  /\ mk' = [called |-> TRUE, op |-> o, args |-> args, err |-> r.err,
                  node |-> r.node]
        /\ UNCHANGED <<ldvars, cmp, mpi_enabled, mpivars>>

NodeNext == \E o \in AllOps, args \in NodeArgs : MakeNode(o, args)

NodeSpec == Init /\ [][NodeNext]_vars

\* ------------------------------------------------------------------------
\* The graph optimiser's driver: a == b, hash(a), and the methods of a
\* called in between
\* ------------------------------------------------------------------------

\* the optimiser compares the ops a and b and hashes both
Compare(a, b) ==
    /\ ~cmp.called
    /\ cmp' = [called |-> TRUE, a |-> a, b |-> b, eq |-> PyEq(a, b),
                ha |-> PyHashOp(a), hb |-> PyHashOp(b),
                step |-> "compare", err |-> NoErr]
    /\ UNCHANGED <<ldvars, mk, mpi_enabled, mpivars>>

\* the inputs the engine hands to a Wait's compute step: the handle of a
\* Start, and for a receive-wait the Start's buffer too
WaitInputs(o) ==
    IF o.kind = "MPISendWait" THEN <<Request(<<0, 1>>)>>
    ELSE <<Request(<<0, 1>>), BufferArray("int64", <<1>>, <<0>>, <<0, 1>>)>>

\* the exceptions o.perform(node, inp, out) can end with on fresh output
\* storage, over the inputs the engine can hand it
PerformErrs(o) ==
    CASE o.kind = "LoadFromDisk" ->
             { LoadFromDisk_perform(o, <<Str(path)>>, NewStorage(o),
                                    file).err :
                   path \in Paths, file \in Files }
      [] o.kind = "MPIRecv" ->
             { MPIRecv_perform(o, <<>>, NewStorage(o), mpi_enabled, <<0, 1>>,
                               garbage).err :
                   garbage \in SeqsOfLen(Garbage, Product(o.shape)) }
      [] o.kind = "MPIRecvWait" ->
             { MPIRecvWait_perform(o, WaitInputs(o), NewStorage(o),
                                   requests).err }
      [] o.kind = "MPISend" ->
             { MPISend_perform(o, <<t>>, NewStorage(o), mpi_enabled,
                               <<0, 1>>).err : t \in Tensors }
      [] o.kind = "MPISendWait" ->
             { MPISendWait_perform(o, WaitInputs(o), NewStorage(o),
                                   requests).err }

\* a compute step that records the element type it worked on: perform
\* with self.dtype and self._info reassigned
OpPerform_StoresDType ==
    /\ cmp.called
    /\ \E err \in PerformErrs(cmp.a) :
         LET a1 == IF "dtype" \in DOMAIN cmp.a
                   THEN [cmp.a EXCEPT !.dtype = "float64",
                                      !._info[IF cmp.a.kind = "MPIRecv"
                                              THEN 3 ELSE 1] = "float64"]
                   ELSE cmp.a
         IN  cmp' = [cmp EXCEPT !.a = a1,
                                !.eq = PyEq(a1, cmp.b),
                                !.step = "perform",
                                !.err = err]
    /\ UNCHANGED <<ldvars, mk, mpi_enabled, mpivars>>

\* the engine runs the compute step of a; the optimiser compares a and b
\* again afterwards. No perform assigns to an attribute of self: a is the
\* object it was
OpPerform ==
    /\ cmp.called
    /\ \E err \in PerformErrs(cmp.a) :
         cmp' = [cmp EXCEPT !.eq = PyEq(cmp.a, cmp.b),
                            !.step = "perform",
                            !.err = err]
    /\ UNCHANGED <<ldvars, mk, mpi_enabled, mpivars>>

\* the graph builder calls a.make_node(*args); the optimiser compares a
\* and b again afterwards. No make_node assigns to an attribute of self
OpMakeNode(args) ==
    /\ cmp.called
    /\ cmp' = [cmp EXCEPT !.eq = PyEq(cmp.a, cmp.b),
                          !.step = "make_node",
                          !.err = make_node(cmp.a, args, mpi_enabled).err]
    /\ UNCHANGED <<ldvars, mk, mpi_enabled, mpivars>>

EqNext ==
    \/ \E a \in AllOps, b \in AllOps : Compare(a, b)
    \/ OpPerform
    \/ \E args \in NodeArgs : OpMakeNode(args)

EqSpec == Init /\ [][EqNext]_vars

\* ------------------------------------------------------------------------
\* Properties of the loader (checked under LoaderSpec)
\* ------------------------------------------------------------------------

\* the memory-mapping modes the loader supports: None and 'c'
SupportedModes == {"None", "c"}

\* the path is exactly "npz" or ends in ".npz"
NpzNamed(path) == path = <<"n", "p", "z">> \/ EndsWithNpz(path)

\* C8: constructing a loader with a valid element type succeeds when the
\* mode is None or 'c' and fails with the ValueError of line 23 for every
\* other mode; no loader object with another mode exists, so none is run
C8_ModeValidated ==
    /\ ldInit.called /\ DTypeValid(ldInit.dtype) =>
          IF ldInit.mmap_mode \in SupportedModes
          THEN /\ ldInit.err = NoErr
               /\ loader # None
               /\ loader.mmap_mode = ldInit.mmap_mode
               /\ loader.broadcastable = ldInit.broadcastable
          ELSE /\ ldInit.err = Raise("ValueError", 23)
               /\ loader = None
    /\ loader # None => loader.mmap_mode \in SupportedModes
    /\ ldCall.called => loader # None /\ loader.mmap_mode \in SupportedModes

\* C8 witness: a construction with mode 'r+' and a valid element type was
\* rejected
C8_Witness ==
    /\ ldInit.called
    /\ DTypeValid(ldInit.dtype)
    /\ ldInit.mmap_mode = "r+"
    /\ ldInit.err.exc = "ValueError"
    /\ loader = None

\* the last compute step ran on an array file whose stored element type
\* differs from the loader's
LdMismatch ==
    /\ ldCall.called
    /\ ldCall.file.fkind = "array"
    /\ ldCall.file.dtype # loader.dtype

\* C9 as stated: for every file whose stored element type differs from the
\* configured one the compute step fails with the type-mismatch error and
\* leaves the output slot as it was
C9_Original ==
    LdMismatch =>
        /\ ldCall.err = Raise("TypeError", 46)
        /\ ldOut = ldCall.before

\* C9 amended: the same, for files at a path that is not "npz" and does not
\* end in ".npz"
C9_TypeMismatch ==
    LdMismatch /\ ~NpzNamed(ldCall.path) =>
        /\ ldCall.err = Raise("TypeError", 46)
        /\ ldOut = ldCall.before

\* C9 witness: a mismatching file at a path not named npz was refused, with
\* an earlier result still in the output slot
C9_Witness ==
    /\ LdMismatch
    /\ ~NpzNamed(ldCall.path)
    /\ ldCall.err.exc = "TypeError"
    /\ ldOut[1][1] # None

\* C10: on every path ending in ".npz" the compute step fails with the
\* ValueError of line 43, whatever is stored there, without reading the
\* file, and leaves the output slot as it was
C10_ArchiveRejected ==
    ldCall.called /\ EndsWithNpz(ldCall.path) =>
        /\ ldCall.err = Raise("ValueError", 43)
        /\ ~ldCall.read
        /\ ldOut = ldCall.before

\* C10 witness: a path ending in ".npz" was refused although an array of
\* the configured element type is stored there
C10_Witness ==
    /\ ldCall.called
    /\ EndsWithNpz(ldCall.path)
    /\ ldCall.file.fkind = "array"
    /\ ldCall.file.dtype = loader.dtype
    /\ ldCall.err.exc = "ValueError"

\* C10 witness, second case: the path names no file at all
C10_WitnessMissing ==
    /\ ldCall.called
    /\ EndsWithNpz(ldCall.path)
    /\ ldCall.file = NoFile
    /\ ldCall.err.exc = "ValueError"

\* ------------------------------------------------------------------------
\* Properties of the transfer operations (checked under Spec)
\* ------------------------------------------------------------------------

\* the Start of slot i has posted a request
Issued(i) == requests[i].status # "unissued"

\* the compute step has run (to its end or to an exception)
Ran(err) == err # NotRun

\* x is an array with the element type, shape and elements of t
SameArray(x, t) ==
    /\ x.kind = "ndarray"
    /\ x.dtype = t.dtype
    /\ x.shape = t.shape
    /\ x.data = t.data

\* slot a sends the tensor t to the process of slot b, which receives from
\* the process of a on the same tag with the element type and shape of t
Transfer(a, b, t) ==
    /\ op[a].kind = "MPISend"
    /\ op[b].kind = "MPIRecv"
    /\ op[a].rank = b[1]
    /\ op[b].rank = a[1]
    /\ op[a].tag = op[b].tag
    /\ startIn[a] = <<t>>
    /\ op[b].dtype = t.dtype
    /\ op[b].shape = t.shape

\* C1 as stated (with the transport available and not failing, for a tensor
\* that has elements): once A has run send-start on t and its send-wait,
\* and B has run the matching receive-start and its receive-wait, B's
\* receive-wait output is the whole of t and A's send-wait output is True
C1_Original ==
    \A a \in SlotIds, b \in SlotIds, t \in Tensors :
        /\ mpi_enabled
        /\ t.data # <<>>
        /\ Transfer(a, b, t)
        /\ requests[a].status # "failed"
        /\ requests[b].status # "failed"
        /\ Ran(startErr[a]) /\ Ran(waitErr[a])
        /\ Ran(startErr[b]) /\ Ran(waitErr[b])
        => /\ SameArray(waitOut[b][1][1], t)
           /\ waitOut[a][1][1] = PyTrue

C4_Original ==
    [][\A i \in SlotIds :
          /\ requests[i].status = "failed"
          /\ ~Ran(waitErr[i])
          /\ Ran(waitErr'[i])
          => /\ waitErr'[i].exc = "MPIError"
             /\ waitOut'[i] = waitOut[i]
             /\ requests'[i].waits = requests[i].waits + 1]_vars

\* every op constructed has had its Start and its Wait run
Finished ==
    \A i \in SlotIds : op[i] # None => Ran(startErr[i]) /\ Ran(waitErr[i])

\* C5 as stated: no request is waited on twice, and when the execution has
\* finished every request posted has been waited on exactly once
C5_Original ==
    /\ \A i \in SlotIds : Issued(i) => requests[i].waits <= 1
    /\ Finished => \A i \in SlotIds : Issued(i) => requests[i].waits = 1

\* the configuration error of the module: the ValueError of line 23
IsConfigurationError(err) == err.exc = "ValueError"

\* the Start of slot i ran on a well-formed input: a receive has none, a
\* send got a tensor that has elements
StartedOnValidInput(i) ==
    /\ Ran(startErr[i])
    /\ op[i].kind = "MPISend" => startIn[i][1].data # <<>>

\* C7 as stated: with the transport unavailable no request is posted and
\* every Start or Wait compute step that has run was rejected with a
\* configuration error
C7_Original ==
    ~mpi_enabled =>
        \A i \in SlotIds :
            /\ ~Issued(i)
            /\ StartedOnValidInput(i) => IsConfigurationError(startErr[i])
            /\ StartedOnValidInput(i) /\ Ran(waitErr[i]) =>
                   IsConfigurationError(waitErr[i])

\* ------------------------------------------------------------------------
\* Properties of node construction (checked under NodeSpec)
\* ------------------------------------------------------------------------

\* C6 as stated: a Wait node is constructed from a handle input, which is
\* then its only input, and cannot be constructed from anything else
C6_Original ==
    mk.called /\ mk.op.kind \in {"MPIRecvWait", "MPISendWait"} =>
        IF mk.args = <<Variable("Generic")>>
        THEN mk.err = NoErr /\ mk.node.inputs = mk.args
        ELSE mk.err # NoErr

\* ------------------------------------------------------------------------
\* More properties of the loader (checked under LoaderSpec)
\* ------------------------------------------------------------------------

\* the last compute step ran on an array file of the loader's element type
\* at a path that is not "npz" and does not end in ".npz"
LdMatch ==
    /\ ldCall.called
    /\ ldCall.file.fkind = "array"
    /\ ldCall.file.dtype = loader.dtype
    /\ ~NpzNamed(ldCall.path)

\* the shape is consistent with the pattern: one axis per flag, extent 1 on
\* every axis flagged broadcastable
ShapeConsistent(shape, broadcastable) ==
    /\ Len(shape) = Len(broadcastable)
    /\ \A k \in 1..Len(shape) : broadcastable[k] => shape[k] = 1

\* C11 as stated: loading an array file of the configured element type
\* yields an array of that type whose shape is consistent with the
\* configured pattern
C11_Original ==
    LdMatch =>
        /\ ldCall.err = NoErr
        /\ ldOut[1][1].kind = "ndarray"
        /\ ldOut[1][1].dtype = loader.dtype
        /\ ShapeConsistent(ldOut[1][1].shape, loader.broadcastable)

\* C11 amended: the step succeeds and yields the stored array: the
\* configured element type, the file's own shape and elements, mapped as
\* the configured mode says; the shape is not compared with the pattern
C11_LoadSuccess ==
    LdMatch =>
        /\ ldCall.err = NoErr
        /\ ldCall.read
        /\ ldOut[1][1] = [FileArray(ldCall.file) EXCEPT
                              !.mmap = loader.mmap_mode]
        /\ ldOut[1][1].dtype = loader.dtype
        /\ ldOut[1][1].shape = ldCall.file.shape

\* C11 witness: a matching file was loaded with mode 'c' whose shape has
\* more axes than the pattern
C11_Witness ==
    /\ LdMatch
    /\ ldCall.err = NoErr
    /\ loader.mmap_mode = "c"
    /\ ldOut[1][1].kind = "ndarray"
    /\ Len(ldOut[1][1].shape) > Len(loader.broadcastable)

\* C20 as stated: the format error is raised only for a path whose final
\* characters are ".npz"; any other path, one with no dot included, is handed
\* to the reader
C20_Original ==
    ldCall.called =>
        /\ (ldCall.err = Raise("ValueError", 43)) = EndsWithNpz(ldCall.path)
        /\ ~EndsWithNpz(ldCall.path) => ldCall.read

\* ------------------------------------------------------------------------
\* More properties of the transfer operations (checked under Spec)
\* ------------------------------------------------------------------------

\* a storage cell that holds exactly one value
CellFilled(cell) == Len(cell) = 1 /\ cell[1] # None

\* C17 as stated: a Start compute step that finished without error left a
\* value in every cell its node declares, one value per cell; and a
\* receive-start run with the transport available does finish and fills
\* both its handle cell and its tensor cell
C17_Original ==
    \A i \in SlotIds :
        /\ startErr[i] = NoErr =>
               \A k \in 1..NumOutputs(op[i]) : CellFilled(startOut[i][k])
        /\ (mpi_enabled /\ op[i] # None /\ op[i].kind = "MPIRecv"
                /\ Ran(startErr[i])) =>
               /\ startErr[i] = NoErr
               /\ CellFilled(startOut[i][1])
               /\ CellFilled(startOut[i][2])

\* ------------------------------------------------------------------------
\* Properties of equality and hashing (checked under EqSpec)
\* ------------------------------------------------------------------------

\* both compared ops are of the kind
BothOf(kind) == cmp.called /\ cmp.a.kind = kind /\ cmp.b.kind = kind

\* C12 as stated: two receives are equal exactly when peer, tag, canonical
\* element type and shape agree; two sends exactly when peer and tag agree;
\* a send and a receive are never equal
C12_Original ==
    /\ BothOf("MPIRecv") =>
           cmp.eq = (/\ cmp.a.rank = cmp.b.rank
                     /\ cmp.a.tag = cmp.b.tag
                     /\ cmp.a.dtype = cmp.b.dtype
                     /\ cmp.a.shape = cmp.b.shape)
    /\ BothOf("MPISend") =>
           cmp.eq = (cmp.a.rank = cmp.b.rank /\ cmp.a.tag = cmp.b.tag)
    /\ (cmp.called /\ {cmp.a.kind, cmp.b.kind} = {"MPISend", "MPIRecv"}) =>
           ~cmp.eq

\* C13 as stated: two loaders are equal exactly when canonical element
\* type, shape pattern and memory-mapping mode agree
C13_Original ==
    BothOf("LoadFromDisk") =>
        cmp.eq = (/\ cmp.a.dtype = cmp.b.dtype
                  /\ cmp.a.broadcastable = cmp.b.broadcastable
                  /\ cmp.a.mmap_mode = cmp.b.mmap_mode)

WaitKinds == {"MPIRecvWait", "MPISendWait"}

\* C14: a comparison that involves a Wait op gives equal exactly when the
\* other op is of the same kind
C14_WaitEquality ==
    (cmp.called /\ {cmp.a.kind, cmp.b.kind} \cap WaitKinds # {}) =>
        cmp.eq = (cmp.a.kind = cmp.b.kind)

\* C14 witness: two receive-wait ops were compared and found equal
C14_Witness == BothOf("MPIRecvWait") /\ cmp.step = "compare" /\ cmp.eq

\* C19 as stated: when two ops compare equal, hashing each succeeds and the
\* hashes are equal
C19_Original ==
    (cmp.called /\ cmp.eq) =>
        /\ cmp.ha.err = NoErr
        /\ cmp.hb.err = NoErr
        /\ cmp.ha.val = cmp.hb.val

\* C16: a compute step or node-description step of an op leaves both
\* compared ops as they were, every attribute of theirs, and the result of
\* comparing them
C16_ConfigNeverMutated ==
    [][cmp.called => /\ cmp'.a = cmp.a
                     /\ cmp'.b = cmp.b
                     /\ cmp'.eq = cmp.eq]_vars

\* C16 witness: the compute step of a send ran to its end, after the send
\* was compared with an equal send
C16_Witness ==
    /\ BothOf("MPISend")
    /\ cmp.eq
    /\ cmp.step = "perform"
    /\ cmp.err = NoErr

\* ------------------------------------------------------------------------
\* Two transfers between one pair of processes: the engine's driver on a
\* graph whose ops are already constructed, with the transport available
\* ------------------------------------------------------------------------

\* the tensors of the two-transfer graphs: one element each
PairTensors == { t \in Tensors : t.shape = <<1>> }

\* process 0 sends on tag 7 and on tag 8 to process 1, which receives both
ChannelOps ==
    (<<0, 1>> :> MPISend_init(1, 7).obj)
      @@ (<<0, 2>> :> MPISend_init(1, 8).obj)
      @@ (<<1, 1>> :> MPIRecv_init(0, 7, "int64", <<1>>).obj)
      @@ (<<1, 2>> :> MPIRecv_init(0, 8, "int64", <<1>>).obj)

\* each process sends to the other and receives from the other
ExchangeOps ==
    (<<0, 1>> :> MPISend_init(1, 7).obj)
      @@ (<<0, 2>> :> MPIRecv_init(1, 8, "int64", <<1>>).obj)
      @@ (<<1, 1>> :> MPISend_init(0, 8).obj)
      @@ (<<1, 2>> :> MPIRecv_init(0, 7, "int64", <<1>>).obj)

\* the Wait op that consumes the outputs of the Start op o
WaitOf(o) ==
    IF o.kind = "MPISend" THEN MPISendWait_init.obj ELSE MPIRecvWait_init.obj

\* the state after the ops of the graph are constructed, mpi4py imported
PairInit(ops) ==
    /\ loader = None
    /\ ldInit = NoCall
    /\ ldOut = <<NewCell>>
    /\ ldCall = NoCall
    /\ mk = NoCall
    /\ cmp = NoCall
    /\ mpi_enabled = TRUE
    /\ op = ops
    /\ startIn = [i \in SlotIds |-> <<>>]
    /\ startOut = [i \in SlotIds |-> NewStorage(ops[i])]
    /\ startErr = [i \in SlotIds |-> NotRun]
    /\ waitOut = [i \in SlotIds |-> NewStorage(WaitOf(ops[i]))]
    /\ waitErr = [i \in SlotIds |-> NotRun]
    /\ requests = [i \in SlotIds |-> Unissued]

ChannelInit == PairInit(ChannelOps)

\* any interleaving of the compute steps that runs each Start before its
\* own Wait, and of the transport's steps
ChannelNext ==
    \/ \E i \in SlotIds, t \in PairTensors : SendStart(i, t)
    \/ \E i \in SlotIds : RecvStart(i)
    \/ \E i \in SlotIds : SendWait(i)
    \/ \E i \in SlotIds : RecvWait(i)
    \/ \E i \in SlotIds, j \in SlotIds : TransportMatch(i, j)
    \/ \E i \in SlotIds : TransportEager(i)

ChannelSpec == ChannelInit /\ [][ChannelNext]_vars

\* C15 as stated: with two transfers on distinct tags between one pair of
\* processes, a receive-wait that has run on a completed receive has put
\* out the tensor of the send with its own tag, whatever the other send
\* carried
C15_Original ==
    \A a \in SlotIds, b \in SlotIds, t \in PairTensors :
        /\ Transfer(a, b, t)
        /\ requests[b].status = "complete"
        /\ Ran(waitErr[b])
        => SameArray(waitOut[b][1][1], t)

ExchangeInit == PairInit(ExchangeOps)

\* both Starts of the process p have run
StartsDone(p) == \A k \in Slots : Ran(startErr[<<p, k>>])

\* the send-wait of slot i, run once its process has run both Starts
OrderedSendWait(i) == StartsDone(i[1]) /\ SendWait(i)

\* the receive-wait of slot i, run once its process has run both Starts
OrderedRecvWait(i) == StartsDone(i[1]) /\ RecvWait(i)

\* the processes run both Starts before any Wait, the Waits in either
\* order; the transport does not fail
ExchangeNext ==
    \/ \E i \in SlotIds, t \in PairTensors : SendStart(i, t)
    \/ \E i \in SlotIds : RecvStart(i)
    \/ \E i \in SlotIds : OrderedSendWait(i)
    \/ \E i \in SlotIds : OrderedRecvWait(i)
    \/ \E i \in SlotIds, j \in SlotIds : TransportMatch(i, j)
    \/ \E i \in SlotIds : TransportEager(i)

\* the engine of each process keeps running steps that can run, and the
\* transport keeps making progress
ExchangeSpec ==
    ExchangeInit /\ [][ExchangeNext]_vars /\ WF_vars(ExchangeNext)

\* C18 as stated: in the symmetric exchange, under a fair transport that
\* does not fail, all four Wait compute steps eventually finish: each has
\* run to its end
C18_Original ==
    <>(\A i \in SlotIds : waitErr[i] = NoErr)

====
